---- MODULE Spec2Model ----
(***************************************************************************)
(* Model of azurerm/internal/services/synapse/                             *)
(* synapse_big_data_pool_resource.go: the create/update, read and delete   *)
(* handlers of the Synapse Big Data Pool resource and its expand/flatten   *)
(* converters.                                                             *)
(*                                                                         *)
(* Go pointers are modelled as sequences of length 0 or 1: Nil is the nil  *)
(* pointer and Ptr(v) a pointer to v.  A configuration list ([]interface{} *)
(* with MaxItems 1) is a sequence of length 0 or 1 whose element is a      *)
(* record.  Integers written by the converters stay inside the schema's    *)
(* validated ranges, far inside int32, so the int/int32 casts keep them.   *)
(***************************************************************************)
EXTENDS Integers, Sequences, FiniteSets, TLC

Nil == <<>>
Ptr(v) == <<v>>

\* ---------------------------------------------------------------- bounds
\* node counts of the model are NodeCountMin .. NodeCountMin + NodeSpan
NodeSpan == 1
\* idle delays of the model are DelayInMinutesMin .. DelayInMinutesMin + DelaySpan
DelaySpan == 1

\* ----------------------------------------------------- schema constants
NodeCountMin == 3
DelayInMinutesMin == 5

NodeCounts == NodeCountMin .. (NodeCountMin + NodeSpan)
Delays == DelayInMinutesMin .. (DelayInMinutesMin + DelaySpan)
\* a list element that is nil (an empty block)
NilElem == [nil |-> TRUE]

\* ------------------------------------------------------------ converters
expandArmBigDataPoolAutoPauseProperties(input) ==
    IF Len(input) = 0
    THEN Ptr([DelayInMinutes |-> Nil, Enabled |-> Ptr(FALSE)])
    ELSE Ptr([DelayInMinutes |-> Ptr(input[1].delay_in_minutes),
              Enabled |-> Ptr(TRUE)])

\* faulty variant: min and max node count swapped
expandAutoScale_Swapped(input) ==
    IF Len(input) = 0 \/ input[1] = NilElem
    THEN Ptr([MinNodeCount |-> Nil, Enabled |-> Ptr(FALSE), MaxNodeCount |-> Nil])
    ELSE Ptr([MinNodeCount |-> Ptr(input[1].max_node_count),
              Enabled |-> Ptr(TRUE),
              MaxNodeCount |-> Ptr(input[1].min_node_count)])

expandArmBigDataPoolAutoScaleProperties(input) ==
    IF Len(input) = 0 \/ input[1] = NilElem
    THEN Ptr([MinNodeCount |-> Nil, Enabled |-> Ptr(FALSE), MaxNodeCount |-> Nil])
    ELSE Ptr([MinNodeCount |-> Ptr(input[1].min_node_count),
              Enabled |-> Ptr(TRUE),
              MaxNodeCount |-> Ptr(input[1].max_node_count)])

expandArmBigDataPoolLibraryRequirements(input) ==
    IF Len(input) = 0
    THEN Nil
    ELSE Ptr([Content |-> Ptr(input[1].content),
              Filename |-> Ptr(input[1].filename)])

\* faulty variant: the disabled policy is flattened like an enabled one
flattenAutoPause_IgnoreEnabled(input) ==
    IF input = Nil
    THEN <<>>
    ELSE LET delayInMinutes == IF input[1].DelayInMinutes # Nil
                               THEN input[1].DelayInMinutes[1] ELSE 0
         IN  <<[delay_in_minutes |-> delayInMinutes]>>

flattenArmBigDataPoolAutoPauseProperties(input) ==
    IF input = Nil
    THEN <<>>
    ELSE LET delayInMinutes == IF input[1].DelayInMinutes # Nil
                               THEN input[1].DelayInMinutes[1] ELSE 0
             enabled == IF input[1].Enabled # Nil
                        THEN input[1].Enabled[1] ELSE FALSE
         IN  IF ~enabled
             THEN <<>>
             ELSE <<[delay_in_minutes |-> delayInMinutes]>>

flattenArmBigDataPoolAutoScaleProperties(input) ==
    IF input = Nil
    THEN <<>>
    ELSE LET enabled == IF input[1].Enabled # Nil
                        THEN input[1].Enabled[1] ELSE FALSE
         IN  IF ~enabled
             THEN <<>>
             ELSE LET maxNodeCount == IF input[1].MaxNodeCount # Nil
                                      THEN input[1].MaxNodeCount[1] ELSE 0
                      minNodeCount == IF input[1].MinNodeCount # Nil
                                      THEN input[1].MinNodeCount[1] ELSE 0
                  IN  <<[max_node_count |-> maxNodeCount,
                         min_node_count |-> minNodeCount]>>

flattenArmBigDataPoolLibraryRequirements(input) ==
    IF input = Nil
    THEN <<>>
    ELSE LET content == IF input[1].Content # Nil
                        THEN input[1].Content[1] ELSE ""
             filename == IF input[1].Filename # Nil
                         THEN input[1].Filename[1] ELSE ""
         IN  <<[content |-> content, filename |-> filename]>>

\* ------------------------------------------- value domains of the model
OptBool == {Nil, Ptr(FALSE), Ptr(TRUE)}
OptDelay == {Nil} \cup {Ptr(n) : n \in {0} \cup Delays}
OptCount == {Nil} \cup {Ptr(n) : n \in {0} \cup NodeCounts}
OptText == {Nil, Ptr(""), Ptr("numpy")}
OptFile == {Nil, Ptr("requirements.txt")}

\* every remote value of the three nested structures
AutoPauseStructs ==
    {Nil} \cup {Ptr([DelayInMinutes |-> d, Enabled |-> e]) : d \in OptDelay, e \in OptBool}
AutoScaleStructs ==
    {Nil} \cup {Ptr([MinNodeCount |-> lo, Enabled |-> e, MaxNodeCount |-> hi]) :
                    lo \in OptCount, e \in OptBool, hi \in OptCount}
LibraryStructs ==
    {Nil} \cup {Ptr([Content |-> c, Filename |-> f]) : c \in OptText, f \in OptFile}

\* every configuration value the schema accepts for the three nested blocks
AutoPauseBlocks == {<<>>} \cup {<<[delay_in_minutes |-> n]>> : n \in Delays}
AutoScaleBlocks ==
    {<<>>} \cup {<<[max_node_count |-> hi, min_node_count |-> lo]>> :
                    hi \in NodeCounts, lo \in NodeCounts}
LibraryBlocks ==
    {<<>>} \cup {<<[content |-> c, filename |-> f]>> :
                    c \in {"", "numpy"}, f \in {"requirements.txt"}}

Expand(kind, input) ==
    CASE kind = "auto_pause" -> expandArmBigDataPoolAutoPauseProperties(input)
      [] kind = "auto_scale" -> expandArmBigDataPoolAutoScaleProperties(input)
      [] kind = "library_requirement" -> expandArmBigDataPoolLibraryRequirements(input)

Flatten(kind, input) ==
    CASE kind = "auto_pause" -> flattenArmBigDataPoolAutoPauseProperties(input)
      [] kind = "auto_scale" -> flattenArmBigDataPoolAutoScaleProperties(input)
      [] kind = "library_requirement" -> flattenArmBigDataPoolLibraryRequirements(input)

Structs(kind) ==
    CASE kind = "auto_pause" -> AutoPauseStructs
      [] kind = "auto_scale" -> AutoScaleStructs
      [] kind = "library_requirement" -> LibraryStructs

Blocks(kind) ==
    CASE kind = "auto_pause" -> AutoPauseBlocks
      [] kind = "auto_scale" -> AutoScaleBlocks
      [] kind = "library_requirement" -> LibraryBlocks

Kinds == {"auto_pause", "auto_scale", "library_requirement"}

VARIABLES cvKind, cvFrom, cvIn, cvMid, cvOut, cvStage

cvVars == <<cvKind, cvFrom, cvIn, cvMid, cvOut, cvStage>>

\* the converters are idle
ConvOff ==
    /\ cvKind = "auto_pause"
    /\ cvFrom = "none"
    /\ cvIn = <<>>
    /\ cvMid = <<>>
    /\ cvOut = <<>>
    /\ cvStage = 0

\* a round trip starts from a remote struct or from a configuration block; the
\* flattened list reaches expand through ResourceData (d.Set in Read, d.Get in
\* create/update), which holds a TypeInt as a plain integer
ConvInit ==
    /\ cvKind \in Kinds
    /\ cvFrom \in {"remote", "config"}
    /\ cvIn \in IF cvFrom = "remote" THEN Structs(cvKind) ELSE Blocks(cvKind)
    /\ cvMid = <<>>
    /\ cvOut = <<>>
    /\ cvStage = 0

\* flatten is the first leg from a remote struct, the second from a block
ConvFlatten ==
    /\ \/ /\ cvFrom = "remote"
          /\ cvStage = 0
          /\ cvMid' = Flatten(cvKind, cvIn)
          /\ UNCHANGED cvOut
       \/ /\ cvFrom = "config"
          /\ cvStage = 1
          /\ cvOut' = Flatten(cvKind, cvMid)
          /\ UNCHANGED cvMid
    /\ cvStage' = cvStage + 1
    /\ UNCHANGED <<cvKind, cvFrom, cvIn>>

\* expand is the first leg from a block, the second from a remote struct
ConvExpand ==
    /\ \/ /\ cvFrom = "config"
          /\ cvStage = 0
          /\ cvMid' = Expand(cvKind, cvIn)
          /\ UNCHANGED cvOut
       \/ /\ cvFrom = "remote"
          /\ cvStage = 1
          /\ cvOut' = Expand(cvKind, cvMid)
          /\ UNCHANGED cvMid
    /\ cvStage' = cvStage + 1
    /\ UNCHANGED <<cvKind, cvFrom, cvIn>>

\* ------------------------------------------------- identity of the pool
PoolName == "pool1"
WorkspaceID == "/workspaces/ws1"
PoolID == "/workspaces/ws1/bigDataPools/pool1"
\* an ID string that parse.SynapseBigDataPoolID rejects
BadID == "/malformed"
WorkspaceLocation == "westeurope"

\* parse.SynapseBigDataPoolID: the parsed ID, or an error
SynapseBigDataPoolID(id) ==
    IF id = PoolID
    THEN [err |-> FALSE, Name |-> PoolName, Workspace |-> WorkspaceID]
    ELSE [err |-> TRUE, Name |-> "", Workspace |-> ""]

\* tags.Expand: map[string]interface{} to map[string]*string (never nil)
TagsExpand(m) == Ptr(m)
\* tags.Flatten inside tags.FlattenAndSet: a nil map flattens to the empty map
TagsFlatten(t) == IF t = Nil THEN {} ELSE t[1]

NoTags == {}
SomeTags == {<<"env", "prod">>}

\* ------------------------------------- configurations the schema accepts
\* fixed node count, every optional field left at its default
CfgFixed ==
    [id |-> "", name |-> PoolName, synapse_workspace_id |-> WorkspaceID,
     node_size_family |-> "MemoryOptimized", node_size |-> "Small",
     node_count |-> NodeCountMin, auto_scale |-> <<>>, auto_pause |-> <<>>,
     spark_events_folder |-> "/events", spark_log_folder |-> "/logs",
     library_requirement |-> <<>>, spark_version |-> "2.4", tags |-> NoTags]

\* autoscale, every optional field set
CfgScaled ==
    [id |-> "", name |-> PoolName, synapse_workspace_id |-> WorkspaceID,
     node_size_family |-> "MemoryOptimized", node_size |-> "Medium",
     node_count |-> 0,
     auto_scale |-> <<[max_node_count |-> NodeCountMin + NodeSpan,
                       min_node_count |-> NodeCountMin]>>,
     auto_pause |-> <<[delay_in_minutes |-> DelayInMinutesMin]>>,
     spark_events_folder |-> "/my-events", spark_log_folder |-> "/my-logs",
     library_requirement |-> <<[content |-> "numpy", filename |-> "requirements.txt"]>>,
     spark_version |-> "2.4", tags |-> SomeTags]

\* fixed node count with an auto-pause policy and tags
CfgFixedPaused ==
    [id |-> "", name |-> PoolName, synapse_workspace_id |-> WorkspaceID,
     node_size_family |-> "MemoryOptimized", node_size |-> "Large",
     node_count |-> NodeCountMin + NodeSpan, auto_scale |-> <<>>,
     auto_pause |-> <<[delay_in_minutes |-> DelayInMinutesMin + DelaySpan]>>,
     spark_events_folder |-> "/events", spark_log_folder |-> "/logs",
     library_requirement |-> <<>>, spark_version |-> "2.4", tags |-> SomeTags]

Configs == {CfgFixed, CfgScaled, CfgFixedPaused}

\* node_count / auto_scale ExactlyOneOf of the schema, on a local state
ExactlyOneOf(dd) == (dd.node_count # 0) # (dd.auto_scale # <<>>)

\* ----------------------------------------------------- the remote side
\* resources another client may have written (drift)
DriftBoth ==
    [Location |-> Ptr(WorkspaceLocation),
     props |-> Ptr([AutoPause |-> Nil,
                    AutoScale |-> Ptr([MinNodeCount |-> Ptr(NodeCountMin),
                                       Enabled |-> Ptr(TRUE),
                                       MaxNodeCount |-> Ptr(NodeCountMin + NodeSpan)]),
                    DefaultSparkLogFolder |-> Ptr("/drift-logs"),
                    LibraryRequirements |-> Nil,
                    NodeCount |-> Ptr(NodeCountMin),
                    NodeSize |-> "Large",
                    NodeSizeFamily |-> "MemoryOptimized",
                    SparkEventsFolder |-> Ptr("/drift-events"),
                    SparkVersion |-> Ptr("2.4")]),
     Tags |-> Nil]

DriftNeither ==
    [Location |-> Ptr(WorkspaceLocation),
     props |-> Ptr([AutoPause |-> Ptr([DelayInMinutes |-> Ptr(DelayInMinutesMin),
                                       Enabled |-> Ptr(FALSE)]),
                    AutoScale |-> Ptr([MinNodeCount |-> Nil,
                                       Enabled |-> Ptr(FALSE),
                                       MaxNodeCount |-> Nil]),
                    DefaultSparkLogFolder |-> Nil,
                    LibraryRequirements |-> Ptr([Content |-> Nil,
                                                 Filename |-> Ptr("requirements.txt")]),
                    NodeCount |-> Nil,
                    NodeSize |-> "Small",
                    NodeSizeFamily |-> "MemoryOptimized",
                    SparkEventsFolder |-> Nil,
                    SparkVersion |-> Nil]),
     Tags |-> Ptr(SomeTags)]

DriftNoProps ==
    [Location |-> Ptr(WorkspaceLocation), props |-> Nil, Tags |-> Ptr(NoTags)]

DriftResources == {DriftBoth, DriftNeither, DriftNoProps}

\* the ID field of a successful Get response: unset, empty, the pool's ID, or
\* a string the ID parser rejects
ResponseIDs == {Nil, Ptr(""), Ptr(PoolID), Ptr(BadID)}

NoResponse == [status |-> "none", ID |-> Nil, props |-> Nil, Tags |-> Nil]
NotFoundResponse == [status |-> "notfound", ID |-> Nil, props |-> Nil, Tags |-> Nil]
ErrorResponse == [status |-> "error", ID |-> Nil, props |-> Nil, Tags |-> Nil]

\* client.Get: what the call can return when the cloud holds rem
GetOutcomes(rem) ==
    {ErrorResponse} \cup
    (IF rem = Nil
     THEN {NotFoundResponse}
     ELSE {[status |-> "ok", ID |-> i, props |-> rem[1].props, Tags |-> rem[1].Tags] :
              i \in ResponseIDs})

\* utils.ResponseWasNotFound
ResponseWasNotFound(r) == r.status = "notfound"

NoOp == [kind |-> "none", state |-> "none", body |-> Nil]

\* --------------------------------------- decisions inside the handlers
\* the pre-check of a new resource
PrecheckResult(existing) ==
    IF existing.status # "ok" /\ ~ResponseWasNotFound(existing)
    THEN "err_precheck"
    ELSE IF existing.ID # Nil /\ existing.ID[1] # ""
         THEN "err_exists"
         ELSE "proceed"

\* faulty variant: NodeCount is sent whatever the autoscale policy says
BuildPayload_AlwaysNodeCount(dd, location) ==
    [Location |-> location,
     props |-> Ptr([AutoPause |-> expandArmBigDataPoolAutoPauseProperties(dd.auto_pause),
                    AutoScale |-> expandArmBigDataPoolAutoScaleProperties(dd.auto_scale),
                    DefaultSparkLogFolder |-> Ptr(dd.spark_log_folder),
                    LibraryRequirements |->
                        expandArmBigDataPoolLibraryRequirements(dd.library_requirement),
                    NodeCount |-> Ptr(dd.node_count),
                    NodeSize |-> dd.node_size,
                    NodeSizeFamily |-> dd.node_size_family,
                    SparkEventsFolder |-> Ptr(dd.spark_events_folder),
                    SparkVersion |-> Ptr(dd.spark_version)]),
     Tags |-> TagsExpand(dd.tags)]

\* bigDataPoolInfo, built from the local state and the workspace's location
BuildPayload(dd, location) ==
    LET autoScale == expandArmBigDataPoolAutoScaleProperties(dd.auto_scale)
    IN  [Location |-> location,
         props |-> Ptr([AutoPause |-> expandArmBigDataPoolAutoPauseProperties(dd.auto_pause),
                        AutoScale |-> autoScale,
                        DefaultSparkLogFolder |-> Ptr(dd.spark_log_folder),
                        LibraryRequirements |->
                            expandArmBigDataPoolLibraryRequirements(dd.library_requirement),
                        NodeCount |-> IF ~autoScale[1].Enabled[1]
                                      THEN Ptr(dd.node_count) ELSE Nil,
                        NodeSize |-> dd.node_size,
                        NodeSizeFamily |-> dd.node_size_family,
                        SparkEventsFolder |-> Ptr(dd.spark_events_folder),
                        SparkVersion |-> Ptr(dd.spark_version)]),
         Tags |-> TagsExpand(dd.tags)]

\* future.WaitForCompletionRef: nil only once the operation has succeeded; an
\* error when it failed, or when polling fails or times out
WaitForCompletionRef(state) ==
    IF state = "succeeded" THEN {"ok", "err"} ELSE {"err"}

\* create/update after the wait returned w
CreateWaitResult(w) == IF w = "ok" THEN "proceed" ELSE "err_wait"

\* faulty variant: the error of the wait is dropped
DeleteWaitResult_ErrorDropped(w) == "ok"

\* Delete after the wait returned w
DeleteWaitResult(w) == IF w = "ok" THEN "ok" ELSE "err_wait"

\* faulty variant: an empty ID passes the check of the re-read
RereadResult_EmptyAccepted(r) ==
    IF r.status # "ok"
    THEN "err_reread"
    ELSE IF r.ID = Nil
         THEN "err_emptyid"
         ELSE "proceed"

\* the re-read after the write
RereadResult(r) ==
    IF r.status # "ok"
    THEN "err_reread"
    ELSE IF r.ID = Nil \/ r.ID[1] = ""
         THEN "err_emptyid"
         ELSE "proceed"

\* d.Set of a *int32 and of a *string: a nil pointer stores the zero value
SetInt(p) == IF p = Nil THEN 0 ELSE p[1]
SetString(p) == IF p = Nil THEN "" ELSE p[1]

\* the d.Set calls of Read on a response that was found
ReadSet(dd, id, r) ==
    LET named == [dd EXCEPT !.name = id.Name, !.synapse_workspace_id = id.Workspace]
        filled ==
            IF r.props # Nil
            THEN LET props == r.props[1]
                 IN  [named EXCEPT
                        !.auto_pause = flattenArmBigDataPoolAutoPauseProperties(props.AutoPause),
                        !.auto_scale = flattenArmBigDataPoolAutoScaleProperties(props.AutoScale),
                        !.library_requirement =
                            flattenArmBigDataPoolLibraryRequirements(props.LibraryRequirements),
                        !.node_count = SetInt(props.NodeCount),
                        !.node_size = props.NodeSize,
                        !.node_size_family = props.NodeSizeFamily,
                        !.spark_version = SetString(props.SparkVersion)]
            ELSE named
    IN  [filled EXCEPT !.tags = TagsFlatten(r.Tags)]

\* faulty variant: a missing resource is reported as an error and the ID is kept
ReadOutcome_NotFoundIsError(dd, id, r) ==
    IF r.status # "ok"
    THEN [d |-> dd, err |-> "read_get"]
    ELSE [d |-> ReadSet(dd, id, r), err |-> "ok"]

\* faulty variant: any failed Get removes the resource from the local state
ReadOutcome_AnyErrorClears(dd, id, r) ==
    IF r.status # "ok"
    THEN [d |-> [dd EXCEPT !.id = ""], err |-> "ok"]
    ELSE [d |-> ReadSet(dd, id, r), err |-> "ok"]

\* Read after its Get returned r: the new local state and the result
ReadOutcome(dd, id, r) ==
    IF r.status # "ok"
    THEN IF ResponseWasNotFound(r)
         THEN [d |-> [dd EXCEPT !.id = ""], err |-> "ok"]
         ELSE [d |-> dd, err |-> "read_get"]
    ELSE [d |-> ReadSet(dd, id, r), err |-> "ok"]

\* node count set and non-zero, autoscale enabled: which of them a response has
RemoteHasNodeCount(props) == SetInt(props.NodeCount) # 0
RemoteHasAutoScale(props) ==
    /\ props.AutoScale # Nil
    /\ props.AutoScale[1].Enabled = Ptr(TRUE)
RemoteExactlyOne(props) == RemoteHasNodeCount(props) # RemoteHasAutoScale(props)

\* ------------------------------------------------------------- state
VARIABLES
    d,          \* the local state (schema.ResourceData): the ID and the fields
    isNew,      \* d.IsNewResource()
    remote,     \* what the cloud holds for the pool: Nil, or a resource
    op,         \* the long-running operation last submitted (the future)
    pc,         \* where the running handler is; "idle" between handlers
    ret,        \* the handler last started and what it returned
    resp,       \* the response of the handler's last Get
    payload,    \* bigDataPoolInfo of the running create/update
    pre,        \* history: the pre-check's answer and whether the pool existed then
    steps,      \* history: the remote calls of the running handler, in order
    id0,        \* history: the local ID when the handler started
    dRead,      \* history: the local state when Read was entered
    sizingOK    \* history: the sizing last stored locally had exactly one of the two

mainVars == <<d, isNew, remote, op, pc, ret, resp, payload, pre, steps, id0, dRead, sizingOK>>
vars == <<d, isNew, remote, op, pc, ret, resp, payload, pre, steps, id0, dRead, sizingOK,
          cvKind, cvFrom, cvIn, cvMid, cvOut, cvStage>>

NoPre == [status |-> "none", existed |-> FALSE]

MainInit ==
    /\ d \in Configs
    /\ isNew = FALSE
    /\ remote \in {Nil} \cup {Ptr(r) : r \in DriftResources}
    /\ op = NoOp
    /\ pc = "idle"
    /\ ret = [handler |-> "none", err |-> "none"]
    /\ resp = NoResponse
    /\ payload = Nil
    /\ pre = NoPre
    /\ steps = <<>>
    /\ id0 = ""
    /\ dRead = d
    /\ sizingOK = TRUE

Deleted == ret = [handler |-> "delete", err |-> "ok"]

\* the SDK starts a handler on local state dd
Begin(handler, dd, new, start) ==
    /\ pc = "idle"
    /\ d' = dd
    /\ isNew' = new
    /\ pc' = start
    /\ ret' = [handler |-> handler, err |-> "running"]
    /\ resp' = NoResponse
    /\ payload' = Nil
    /\ pre' = NoPre
    /\ steps' = <<>>
    /\ id0' = dd.id
    /\ dRead' = dd
    /\ UNCHANGED <<remote, op, cvVars>>

\* the handler returns e
Finish(e) ==
    /\ pc' = "idle"
    /\ ret' = [ret EXCEPT !.err = e]

\* Create: no resource in the local state; d carries the configuration
CreateBegin ==
    /\ d.id = "" \/ Deleted
    /\ \E cfg \in Configs : Begin("create", [cfg EXCEPT !.id = ""], TRUE, "cu_precheck")
    /\ sizingOK' = TRUE

\* Update: d carries the new configuration and the stored ID
UpdateBegin ==
    /\ d.id # ""
    /\ ~Deleted
    /\ \E cfg \in Configs : Begin("update", [cfg EXCEPT !.id = d.id], FALSE, "cu_workspace")
    /\ sizingOK' = TRUE

CUPrecheck ==
    /\ pc = "cu_precheck"
    /\ isNew
    /\ \E existing \in GetOutcomes(remote) :
          /\ resp' = existing
          /\ pre' = [status |-> existing.status, existed |-> remote # Nil]
          /\ IF PrecheckResult(existing) = "proceed"
             THEN pc' = "cu_workspace" /\ UNCHANGED ret
             ELSE Finish(PrecheckResult(existing))
    /\ steps' = Append(steps, "precheck")
    /\ UNCHANGED <<d, isNew, remote, op, payload, id0, dRead, sizingOK, cvVars>>

CUWorkspace ==
    /\ pc = "cu_workspace"
    /\ \/ /\ payload' = Ptr(BuildPayload(d, Ptr(WorkspaceLocation)))
          /\ pc' = "cu_submit"
          /\ UNCHANGED ret
       \/ /\ Finish("err_workspace")
          /\ UNCHANGED payload
    /\ UNCHANGED <<d, isNew, remote, op, resp, pre, steps, id0, dRead, sizingOK, cvVars>>

CUSubmit ==
    /\ pc = "cu_submit"
    /\ \/ /\ op' = [kind |-> "put", state |-> "inprogress", body |-> payload]
          /\ steps' = Append(steps, "submit")
          /\ pc' = "cu_wait"
          /\ UNCHANGED ret
       \/ /\ Finish("err_write")
          /\ steps' = Append(steps, "submit_failed")
          /\ UNCHANGED op
    /\ UNCHANGED <<d, isNew, remote, resp, payload, pre, id0, dRead, sizingOK, cvVars>>

CUWait ==
    /\ pc = "cu_wait"
    /\ \E w \in WaitForCompletionRef(op.state) :
          /\ IF CreateWaitResult(w) = "proceed"
             THEN pc' = "cu_reread" /\ UNCHANGED ret
             ELSE Finish(CreateWaitResult(w))
          /\ steps' = Append(steps, IF w = "ok" THEN "wait" ELSE "wait_failed")
    /\ UNCHANGED <<d, isNew, remote, op, resp, payload, pre, id0, dRead, sizingOK, cvVars>>

\* the re-read, d.SetId and the call of Read
CUReread ==
    /\ pc = "cu_reread"
    /\ \E r \in GetOutcomes(remote) :
          /\ resp' = r
          /\ IF RereadResult(r) = "proceed"
             THEN /\ d' = [d EXCEPT !.id = r.ID[1]]
                  /\ dRead' = d'
                  /\ steps' = steps \o <<"reread", "setid">>
                  /\ pc' = "rd_parse"
                  /\ UNCHANGED ret
             ELSE /\ Finish(RereadResult(r))
                  /\ steps' = Append(steps, IF r.status = "ok" THEN "reread"
                                                               ELSE "reread_failed")
                  /\ UNCHANGED <<d, dRead>>
    /\ UNCHANGED <<isNew, remote, op, payload, pre, id0, sizingOK, cvVars>>

\* Read as a handler of its own: a resource is in the local state
ReadBegin ==
    /\ d.id # ""
    /\ ~Deleted
    /\ Begin("read", d, FALSE, "rd_parse")
    /\ UNCHANGED sizingOK

RDParse ==
    /\ pc = "rd_parse"
    /\ IF SynapseBigDataPoolID(d.id).err
       THEN /\ Finish("read_parse")
            /\ steps' = Append(steps, "read_parse_failed")
       ELSE /\ pc' = "rd_get"
            /\ UNCHANGED <<ret, steps>>
    /\ UNCHANGED <<d, isNew, remote, op, resp, payload, pre, id0, dRead, sizingOK, cvVars>>

RDGet ==
    /\ pc = "rd_get"
    /\ \E r \in GetOutcomes(remote) :
          LET out == ReadOutcome(d, SynapseBigDataPoolID(d.id), r)
          IN  /\ resp' = r
              /\ d' = out.d
              /\ Finish(out.err)
              /\ sizingOK' = IF r.status = "ok" /\ r.props # Nil
                             THEN RemoteExactlyOne(r.props[1])
                             ELSE sizingOK
    /\ steps' = Append(steps, "read_get")
    /\ UNCHANGED <<isNew, remote, op, payload, pre, id0, dRead, cvVars>>

DeleteBegin ==
    /\ d.id # ""
    /\ ~Deleted
    /\ Begin("delete", d, FALSE, "del_parse")
    /\ UNCHANGED sizingOK

DELParse ==
    /\ pc = "del_parse"
    /\ IF SynapseBigDataPoolID(d.id).err
       THEN /\ Finish("del_parse")
            /\ steps' = Append(steps, "parse_failed")
       ELSE /\ pc' = "del_submit"
            /\ UNCHANGED <<ret, steps>>
    /\ UNCHANGED <<d, isNew, remote, op, resp, payload, pre, id0, dRead, sizingOK, cvVars>>

DELSubmit ==
    /\ pc = "del_submit"
    /\ \/ /\ op' = [kind |-> "delete", state |-> "inprogress", body |-> Nil]
          /\ steps' = Append(steps, "submit")
          /\ pc' = "del_wait"
          /\ UNCHANGED ret
       \/ /\ Finish("err_delete")
          /\ steps' = Append(steps, "submit_failed")
          /\ UNCHANGED op
    /\ UNCHANGED <<d, isNew, remote, resp, payload, pre, id0, dRead, sizingOK, cvVars>>

DELWait ==
    /\ pc = "del_wait"
    /\ \E w \in WaitForCompletionRef(op.state) :
          /\ Finish(DeleteWaitResult(w))
          /\ steps' = Append(steps, IF w = "ok" THEN "wait" ELSE "wait_failed")
    /\ UNCHANGED <<d, isNew, remote, op, resp, payload, pre, id0, dRead, sizingOK, cvVars>>

\* ------------------------------------------------------ the environment
\* the service finishes the operation: a write stores the payload, a delete
\* removes the pool; or the operation fails and changes nothing
RemoteOpFinish ==
    /\ op.state = "inprogress"
    /\ \/ /\ op' = [op EXCEPT !.state = "succeeded"]
          /\ remote' = IF op.kind = "put" THEN op.body ELSE Nil
       \/ /\ op' = [op EXCEPT !.state = "failed"]
          /\ UNCHANGED remote
    /\ UNCHANGED <<d, isNew, pc, ret, resp, payload, pre, steps, id0, dRead, sizingOK, cvVars>>

\* somebody else deletes the pool
ExternalDelete ==
    /\ remote # Nil
    /\ remote' = Nil
    /\ UNCHANGED <<d, isNew, op, pc, ret, resp, payload, pre, steps, id0, dRead, sizingOK, cvVars>>

\* somebody else creates or changes the pool
ExternalWrite ==
    /\ \E r \in DriftResources : remote' = Ptr(r)
    /\ remote' # remote
    /\ UNCHANGED <<d, isNew, op, pc, ret, resp, payload, pre, steps, id0, dRead, sizingOK, cvVars>>

Init == MainInit /\ ConvOff

Next ==
    \/ CreateBegin
    \/ UpdateBegin
    \/ CUPrecheck
    \/ CUWorkspace
    \/ CUSubmit
    \/ CUWait
    \/ CUReread
    \/ ReadBegin
    \/ RDParse
    \/ RDGet
    \/ DeleteBegin
    \/ DELParse
    \/ DELSubmit
    \/ DELWait
    \/ RemoteOpFinish
    \/ ExternalDelete
    \/ ExternalWrite

Spec == Init /\ [][Next]_vars

\* the converters alone, on every bounded input
MainOff ==
    /\ d = CfgFixed
    /\ isNew = FALSE
    /\ remote = Nil
    /\ op = NoOp
    /\ pc = "idle"
    /\ ret = [handler |-> "none", err |-> "none"]
    /\ resp = NoResponse
    /\ payload = Nil
    /\ pre = NoPre
    /\ steps = <<>>
    /\ id0 = ""
    /\ dRead = CfgFixed
    /\ sizingOK = TRUE

SpecConvInit == ConvInit /\ MainOff
SpecConvNext == (ConvFlatten \/ ConvExpand) /\ UNCHANGED mainVars
SpecConv == SpecConvInit /\ [][SpecConvNext]_vars
\* ------------------------------------------------------------ properties
LastStep == IF steps = <<>> THEN "" ELSE steps[Len(steps)]
InCreateUpdate == ret.handler \in {"create", "update"}
\* Read has just returned, as a handler or as the tail of create/update
ReadReturned == pc = "idle" /\ LastStep \in {"read_get", "read_parse_failed"}
\* the CreateOrUpdate call was made
Submitted == \E i \in DOMAIN steps : steps[i] \in {"submit", "submit_failed"}
IsWriteStep(x) == x \in {"submit", "wait", "reread", "setid"}
WriteOrder == <<"submit", "wait", "reread", "setid">>
IsPrefix(a, b) == Len(a) <= Len(b) /\ \A i \in 1..Len(a) : a[i] = b[i]

\* a remote struct that expand can produce
Canonical(kind, x) ==
    CASE kind = "auto_pause" ->
            /\ x # Nil
            /\ \/ x[1].Enabled = Ptr(FALSE) /\ x[1].DelayInMinutes = Nil
               \/ x[1].Enabled = Ptr(TRUE) /\ x[1].DelayInMinutes # Nil
      [] kind = "auto_scale" ->
            /\ x # Nil
            /\ \/ /\ x[1].Enabled = Ptr(FALSE)
                  /\ x[1].MinNodeCount = Nil
                  /\ x[1].MaxNodeCount = Nil
               \/ /\ x[1].Enabled = Ptr(TRUE)
                  /\ x[1].MinNodeCount # Nil
                  /\ x[1].MaxNodeCount # Nil
      [] kind = "library_requirement" ->
            \/ x = Nil
            \/ x[1].Content # Nil /\ x[1].Filename # Nil

C10_FlattenExpand ==
    (cvFrom = "config" /\ cvStage = 2) =>
        /\ cvOut = cvIn
        /\ (cvIn = <<>> /\ cvKind \in {"auto_pause", "auto_scale"}) =>
               cvMid[1].Enabled = Ptr(FALSE)

C10_Witness ==
    /\ cvFrom = "config"
    /\ cvStage = 2
    /\ cvKind = "auto_scale"
    /\ cvIn = <<>>
    /\ cvMid = Ptr([MinNodeCount |-> Nil, Enabled |-> Ptr(FALSE), MaxNodeCount |-> Nil])
    /\ cvOut = <<>>

\* C2 as stated: a create never calls CreateOrUpdate when the pool existed
\* remotely at the pre-check or when the pre-check failed with an error other
\* than not-found; only a not-found pre-check lets the create reach the write.
C2_PrecheckGuardsWrite ==
    ret.handler = "create" =>
        /\ pre.existed => ~Submitted
        /\ pre.status = "error" => (~Submitted /\ ret.err = "err_precheck")
        /\ Submitted => pre.status = "notfound"

\* C3: when Read's Get answers not-found, Read clears the local ID and returns
\* no error.
C3_ReadNotFoundClears ==
    (ReadReturned /\ LastStep = "read_get" /\ resp.status = "notfound") =>
        (d.id = "" /\ ret.err = "ok")

C3_Witness ==
    /\ ReadReturned
    /\ ret.handler = "read"
    /\ resp.status = "notfound"
    /\ dRead.id = PoolID
    /\ d.id = ""

\* C4 as stated: after a successful Read of an existing pool every field of the
\* local state holds the value of the remote response.
C4_ReadRepopulatesAll ==
    (ReadReturned /\ LastStep = "read_get" /\ resp.status = "ok" /\ resp.props # Nil) =>
        LET props == resp.props[1]
        IN  /\ d.name = PoolName
            /\ d.synapse_workspace_id = WorkspaceID
            /\ d.node_size_family = props.NodeSizeFamily
            /\ d.node_size = props.NodeSize
            /\ d.node_count = SetInt(props.NodeCount)
            /\ d.auto_scale = flattenArmBigDataPoolAutoScaleProperties(props.AutoScale)
            /\ d.auto_pause = flattenArmBigDataPoolAutoPauseProperties(props.AutoPause)
            /\ d.spark_events_folder = SetString(props.SparkEventsFolder)
            /\ d.spark_log_folder = SetString(props.DefaultSparkLogFolder)
            /\ d.library_requirement =
                   flattenArmBigDataPoolLibraryRequirements(props.LibraryRequirements)
            /\ d.spark_version = SetString(props.SparkVersion)
            /\ d.tags = TagsFlatten(resp.Tags)

\* C5: in create/update the write is submitted, then awaited to completion,
\* then the pool is re-read, and only then the local ID is set, to the ID of
\* that re-read; when the write, the wait or the re-read fails, or the re-read
\* has a nil or empty ID, an error is returned and the local ID is unchanged.
C5_WriteWaitRereadSetId ==
    InCreateUpdate =>
        /\ IsPrefix(SelectSeq(steps, IsWriteStep), WriteOrder)
        /\ pc = "cu_reread" => op = [kind |-> "put", state |-> "succeeded", body |-> payload]
        /\ pc = "rd_parse" => (resp.status = "ok" /\ d.id = resp.ID[1] /\ d.id # "")
        /\ (\A i \in DOMAIN steps : steps[i] # "setid") => d.id = id0
        /\ LastStep \in {"submit_failed", "wait_failed", "reread_failed"} =>
               (pc = "idle" /\ ret.err \in {"err_write", "err_wait", "err_reread"})
        /\ (LastStep = "reread" /\ resp.status = "ok" /\ (resp.ID = Nil \/ resp.ID = Ptr(""))) =>
               (pc = "idle" /\ ret.err = "err_emptyid")
        /\ ret.err \in {"err_write", "err_wait", "err_reread", "err_emptyid"} => d.id = id0

C5_Witness ==
    /\ ret = [handler |-> "create", err |-> "ok"]
    /\ steps = <<"precheck", "submit", "wait", "reread", "setid", "read_get">>
    /\ id0 = ""
    /\ d.id = PoolID

\* C6 as stated: the payload has NodeCount set iff AutoScale.Enabled is false,
\* and after any sequence of create/update and read operations the local state
\* has exactly one of node_count and auto_scale populated.
C6_ExactlyOneAlways ==
    /\ payload # Nil =>
           ((payload[1].props[1].NodeCount # Nil) <=>
            (payload[1].props[1].AutoScale[1].Enabled = Ptr(FALSE)))
    /\ (pc = "idle" /\ ret.handler \in {"create", "update", "read"}) => ExactlyOneOf(d)

\* C6 amended: the payload has NodeCount set iff AutoScale.Enabled is false;
\* Read stores node_count and auto_scale as the remote response has them, so the
\* local state has exactly one of the two populated if and only if the response
\* Read last copied had exactly one of a non-zero NodeCount and an enabled
\* AutoScale (before any such copy the local state is the configuration).
C6_ExactlyOneFollowsRemote ==
    /\ payload # Nil =>
           ((payload[1].props[1].NodeCount # Nil) <=>
            (payload[1].props[1].AutoScale[1].Enabled = Ptr(FALSE)))
    /\ ExactlyOneOf(d) <=> sizingOK
    /\ (ReadReturned /\ LastStep = "read_get" /\ resp.status = "ok" /\ resp.props # Nil) =>
           /\ (d.node_count # 0) <=> RemoteHasNodeCount(resp.props[1])
           /\ (d.auto_scale # <<>>) <=> RemoteHasAutoScale(resp.props[1])

C6_Witness ==
    /\ ret = [handler |-> "create", err |-> "ok"]
    /\ payload # Nil
    /\ payload[1].props[1].NodeCount = Nil
    /\ LastStep = "read_get"
    /\ resp.status = "ok"
    /\ resp.props = payload[1].props
    /\ d.node_count = 0
    /\ d.auto_scale # <<>>

\* C7: Delete returns success only after the delete was submitted and its
\* operation has completed; an ID that does not parse, a failed submit or a
\* failed wait make it return an error; it never returns success while the
\* delete operation is in progress.
C7_DeleteSuccessAfterCompletion ==
    ret.handler = "delete" =>
        /\ ret.err = "ok" =>
               /\ steps = <<"submit", "wait">>
               /\ op = [kind |-> "delete", state |-> "succeeded", body |-> Nil]
        /\ LastStep \in {"parse_failed", "submit_failed", "wait_failed"} =>
               (pc = "idle" /\ ret.err \in {"del_parse", "err_delete", "err_wait"})
        /\ (op.kind = "delete" /\ op.state = "inprogress") => ret.err # "ok"

C7_Witness ==
    /\ ret = [handler |-> "delete", err |-> "ok"]
    /\ pc = "idle"
    /\ op.state = "succeeded"
    /\ remote = Nil

\* C8: when Read's Get fails with an error other than not-found, or the stored
\* ID does not parse, Read returns an error and the local ID and every local
\* field are as they were when Read was entered.
C8_FailedReadKeepsState ==
    (ReadReturned /\ (LastStep = "read_parse_failed" \/ resp.status = "error")) =>
        /\ ret.err \in {"read_parse", "read_get"}
        /\ d = dRead

C8_Witness ==
    /\ ReadReturned
    /\ ret = [handler |-> "read", err |-> "read_get"]
    /\ resp.status = "error"
    /\ d.id = PoolID
    /\ d = dRead

\* C9 as stated: whenever create/update returns without error the local ID is
\* non-empty and is the pool's ID, also when the pool is deleted externally
\* between the steps of the operation.
C9_SuccessMeansIDSet ==
    (pc = "idle" /\ InCreateUpdate /\ ret.err = "ok") => (d.id # "" /\ d.id = PoolID)
====
